---- MODULE Spec2Model ----
(***************************************************************************)
(* Fuzzy + SAW + WP decision calculator (src/app.py).                      *)
(*                                                                         *)
(* The Streamlit script is re-run on every user interaction; its state is  *)
(* st.session_state (df, weights, last_results) plus the sidebar widgets   *)
(* (page, use_fuzzy).  Each action below is one re-run of the script with  *)
(* one widget interaction.                                                 *)
(*                                                                         *)
(* Numbers.  The program computes in IEEE doubles.  The model computes in  *)
(* exact arithmetic extended with the two non-numeric doubles the program  *)
(* can produce from non-negative inputs:                                   *)
(*   - a rational is <<n, d>> in lowest terms with d > 0;                  *)
(*     NaN is <<0, 0>> and +infinity is <<1, 0>>;                          *)
(*   - the result of a real power (WP) is a positive real kept in prime-   *)
(*     exponent form  2^e2 * 3^e3 * 5^e5 * 11^e11  with rational exponents *)
(*     (kind "pos"), or one of the kinds "zero", "inf", "nan".             *)
(* Cell values are non-negative throughout.                                *)
(***************************************************************************)
EXTENDS Integers, Sequences, FiniteSets, TLC

VARIABLES page, use_fuzzy, df, weights, last_results, new_weights, status

vars == <<page, use_fuzzy, df, weights, last_results, new_weights, status>>

\* ---------------------------------------------------------------- bounds
\* SpecCalc draws decision matrices of 1..MaxAlt alternatives.
MaxAlt == 3
\* SpecW draws each raw weight from the grid {0, 1/RawUnits, ..., 1}.
RawUnits == 2

\* ------------------------------------------------------------- tables
\* A pandas object holds its values: f itself, as the explicit table of its
\* values (f @@ <<>> = f) rather than as a rule evaluated at every lookup.
Table(f) == f @@ <<>>

\* ------------------------------------------------- extended rationals
Abs(n) == IF n < 0 THEN -n ELSE n

RECURSIVE GCD(_, _)
GCD(a, b) == IF b = 0 THEN a ELSE GCD(b, a % b)

LCM(a, b) == (a \div GCD(a, b)) * b

NaN == <<0, 0>>
Inf == <<1, 0>>

IsNaN(a) == a = NaN
IsInf(a) == a = Inf
IsFinite(a) == a[2] > 0

\* n/d as a double would hold it: x/0 is inf for x > 0 and NaN for x = 0.
QNorm(n, d) ==
    IF d = 0 THEN (IF n = 0 THEN NaN ELSE Inf)
    ELSE LET g == GCD(Abs(n), d) IN <<n \div g, d \div g>>

Q(n) == <<n, 1>>
Zero == Q(0)
One == Q(1)

QAdd(a, b) ==
    IF IsNaN(a) \/ IsNaN(b) THEN NaN
    ELSE IF IsInf(a) \/ IsInf(b) THEN Inf
    ELSE QNorm(a[1] * b[2] + b[1] * a[2], a[2] * b[2])

QSub(a, b) == QNorm(a[1] * b[2] - b[1] * a[2], a[2] * b[2])

QMul(a, b) ==
    IF IsNaN(a) \/ IsNaN(b) THEN NaN
    ELSE IF IsInf(a) \/ IsInf(b)
         THEN (IF a = Zero \/ b = Zero THEN NaN ELSE Inf)
    ELSE QNorm(a[1] * b[1], a[2] * b[2])

QDiv(a, b) ==
    IF IsNaN(a) \/ IsNaN(b) THEN NaN
    ELSE IF IsInf(b) THEN (IF IsInf(a) THEN NaN ELSE Zero)
    ELSE IF IsInf(a) THEN Inf
    ELSE QNorm(a[1] * b[2], a[2] * b[1])

\* a > b on doubles: every comparison with NaN is false.
QGt(a, b) ==
    IF IsNaN(a) \/ IsNaN(b) THEN FALSE
    ELSE IF IsInf(b) THEN FALSE
    ELSE IF IsInf(a) THEN TRUE
    ELSE a[1] * b[2] > b[1] * a[2]

\* Series.sum() / DataFrame.sum(axis=1): skipna=True, NaN entries are left out.
RECURSIVE SumSkipNa(_)
SumSkipNa(s) ==
    IF s = <<>> THEN Zero
    ELSE IF IsNaN(Head(s)) THEN SumSkipNa(Tail(s))
    ELSE QAdd(Head(s), SumSkipNa(Tail(s)))

\* Python's sum() over floats: nothing is skipped.
RECURSIVE PySum(_)
PySum(s) == IF s = <<>> THEN Zero ELSE QAdd(Head(s), PySum(Tail(s)))

\* ------------------------------------------------- criterion registry
CRIT_KEYS == <<"C1", "C2", "C3", "C4", "C5">>

Crit == {CRIT_KEYS[k] : k \in 1..Len(CRIT_KEYS)}

CRITERIA ==
    [C1 |-> [name |-> "Harga",      type |-> "cost",    weight |-> QNorm(30, 100)],
     C2 |-> [name |-> "Website",    type |-> "benefit", weight |-> QNorm(25, 100)],
     C3 |-> [name |-> "Storage",    type |-> "benefit", weight |-> QNorm(15, 100)],
     C4 |-> [name |-> "Pengunjung", type |-> "benefit", weight |-> QNorm(20, 100)],
     C5 |-> [name |-> "Domain",     type |-> "benefit", weight |-> QNorm(10, 100)]]

DefaultWeights ==
    Table([c \in Crit |-> CRITERIA[c].weight])

Alt(kode, nama, c1, c2, c3, c4, c5) ==
    [kode |-> kode, nama |-> nama,
     C1 |-> c1, C2 |-> c2, C3 |-> c3, C4 |-> c4, C5 |-> c5]

load_default_data ==
    << Alt("A1", "Bluehost",   Q(2), Q(2), Q(1), Q(2), Q(4)),
       Alt("A2", "Dreamhost",  Q(2), Q(4), Q(2), Q(2), Q(4)),
       Alt("A3", "Siteground", Q(4), Q(1), Q(1), Q(1), Q(4)),
       Alt("A4", "Inmotion",   Q(1), Q(2), Q(4), Q(4), Q(4)),
       Alt("A5", "HostGator",  Q(2), Q(2), Q(1), Q(2), Q(4)) >>

\* df[CRIT_KEYS]: the criterion columns of a table.
CritCols(d) ==
    Table([i \in 1..Len(d) |-> Table([c \in Crit |-> d[i][c]])])

\* ---------------------------------------------------------------- fuzzy
TFN == [o \in 1..5 |->
          CASE o = 1 -> <<0, 0, 1>>
            [] o = 2 -> <<0, 1, 2>>
            [] o = 3 -> <<1, 2, 3>>
            [] o = 4 -> <<2, 3, 4>>
            [] o = 5 -> <<3, 4, 4>>]

\* The result of a raised KeyError: no triple.
KeyError == <<>>

\* int(v): truncation toward zero (cell values are non-negative).
PyInt(v) == v[1] \div v[2]

fuzzify_value(v) ==
    IF PyInt(v) \in DOMAIN TFN THEN TFN[PyInt(v)] ELSE KeyError

\* fuzzify_dataframe raises as soon as one cell raises.
FuzzifyRaises(d) ==
    \E i \in 1..Len(d) : \E c \in Crit : fuzzify_value(d[i][c]) = KeyError

fuzzify_dataframe(d) ==
    Table([i \in 1..Len(d) |-> Table([c \in Crit |-> fuzzify_value(d[i][c])])])

defuzzify(fuzzy_df) ==
    Table([i \in 1..Len(fuzzy_df) |->
            Table([c \in Crit |->
                LET t == fuzzy_df[i][c] IN QNorm(t[1] + t[2] + t[3], 3)])])

\* ------------------------------------------------------------------ rank
\* Series.rank(ascending=False, method="min").astype(int).  gt[i][j] tells
\* whether value i is greater than value j.  The values are sorted
\* descending (order[k] is the index of the k-th value) and every value gets
\* the first 1-based position its group of equal values occupies.
\* order with index n put behind every index whose value is not smaller
\* (a stable descending insertion).
InsertDesc(order, n, gt) ==
    LET before == {k \in 1..Len(order) : gt[n][order[k]]}
        pos == IF before = {} THEN Len(order) + 1
               ELSE CHOOSE k \in before : \A l \in before : k <= l
    IN  Table([k \in 1..(Len(order) + 1) |->
                  IF k < pos THEN order[k]
                  ELSE IF k = pos THEN n ELSE order[k - 1]])

RECURSIVE SortPrefix(_, _)
SortPrefix(gt, n) ==
    IF n = 0 THEN <<>> ELSE InsertDesc(SortPrefix(gt, n - 1), n, gt)

SortedDesc(gt) == SortPrefix(gt, Len(gt))

\* Faulty variant of RankMinDesc: method="first", every value gets its own position.
RankFirstDesc(gt) ==
    LET N == Len(gt)
        order == SortedDesc(gt)
    IN  Table([i \in 1..N |-> CHOOSE k \in 1..N : order[k] = i])

RankMinDesc(gt) ==
    LET N == Len(gt)
        order == SortedDesc(gt)
        Same(i, j) == ~gt[i][j] /\ ~gt[j][i]
    IN  Table([i \in 1..N |->
                  CHOOSE k \in 1..N :
                      /\ Same(order[k], i)
                      /\ \A l \in 1..(k - 1) : ~Same(order[l], i)])

\* ------------------------------------------------------------------- SAW
ColMax(X, c) ==
    IF Len(X) = 0 THEN NaN
    ELSE CHOOSE m \in {X[i][c] : i \in 1..Len(X)} :
             \A j \in 1..Len(X) : ~QGt(X[j][c], m)

ColMin(X, c) ==
    IF Len(X) = 0 THEN NaN
    ELSE CHOOSE m \in {X[i][c] : i \in 1..Len(X)} :
             \A j \in 1..Len(X) : ~QGt(m, X[j][c])

\* Faulty variant of saw_normalize: the cost direction is not told apart.
saw_normalize_benefit_only(X) ==
    Table([i \in 1..Len(X) |->
            Table([c \in Crit |-> QDiv(X[i][c], ColMax(X, c))])])

saw_normalize(X) ==
    Table([i \in 1..Len(X) |->
            Table([c \in Crit |->
                IF CRITERIA[c].type = "benefit"
                THEN QDiv(X[i][c], ColMax(X, c))
                ELSE QDiv(ColMin(X, c), X[i][c])])])

RowSeq(row) ==
    Table([k \in 1..Len(CRIT_KEYS) |-> row[CRIT_KEYS[k]]])

saw_weighted(norm, w) ==
    Table([i \in 1..Len(norm) |-> Table([c \in Crit |-> QMul(norm[i][c], w[c])])])

saw_score(weighted) ==
    Table([i \in 1..Len(weighted) |-> SumSkipNa(RowSeq(weighted[i]))])

saw_rank(score) ==
    RankMinDesc(Table([i \in 1..Len(score) |->
                    Table([j \in 1..Len(score) |-> QGt(score[i], score[j])])]))

saw_full(X, w) ==
    LET norm == saw_normalize(X)
        weighted == saw_weighted(norm, w)
        score == saw_score(weighted)
        rank == saw_rank(score)
    IN  [normalized |-> norm,
         weighted |-> weighted,
         result |-> Table([i \in 1..Len(X) |-> [score |-> score[i], rank |-> rank[i]]])]

\* -------------------------------------------------------------------- WP
\* The primes the cell values of the model factor over.
Primes == {2, 3, 5, 11}

\* round(ln(p) * 10^5): decides the order of two distinct positive reals in
\* prime-exponent form (see PEGt).
LnE5 == (2 :> 69315) @@ (3 :> 109861) @@ (5 :> 160944) @@ (11 :> 239790)

RECURSIVE Multiplicity(_, _)
Multiplicity(n, p) ==
    IF n % p = 0 THEN 1 + Multiplicity(n \div p, p) ELSE 0

PEZero == [k |-> "zero", e |-> Table([p \in Primes |-> Zero])]
PEInf == [k |-> "inf", e |-> Table([p \in Primes |-> Zero])]
PENaN == [k |-> "nan", e |-> Table([p \in Primes |-> Zero])]
PEOne == [k |-> "pos", e |-> Table([p \in Primes |-> Zero])]

\* A non-negative finite cell value as a real in prime-exponent form.
ToPE(x) ==
    IF x[1] = 0 THEN PEZero
    ELSE [k |-> "pos",
          e |-> Table([p \in Primes |->
                    Q(Multiplicity(x[1], p) - Multiplicity(x[2], p))])]

\* base ** e on doubles, e finite: 0 ** e is 0, 1 or inf by the sign of e.
PEPow(a, e) ==
    CASE a.k = "pos" ->
            [k |-> "pos", e |-> Table([p \in Primes |-> QMul(a.e[p], e)])]
      [] a.k = "zero" -> (IF e[1] > 0 THEN PEZero
                          ELSE IF e[1] = 0 THEN PEOne ELSE PEInf)
      [] a.k = "inf" -> (IF e[1] > 0 THEN PEInf
                         ELSE IF e[1] = 0 THEN PEOne ELSE PEZero)
      [] OTHER -> PENaN

PEMul(a, b) ==
    CASE a.k = "nan" \/ b.k = "nan" -> PENaN
      [] a.k = "pos" /\ b.k = "pos" ->
            [k |-> "pos", e |-> Table([p \in Primes |-> QAdd(a.e[p], b.e[p])])]
      [] a.k = "zero" /\ b.k = "inf" -> PENaN
      [] a.k = "inf" /\ b.k = "zero" -> PENaN
      [] a.k = "zero" \/ b.k = "zero" -> PEZero
      [] OTHER -> PEInf

RECURSIVE PEProd(_)
PEProd(s) == IF s = <<>> THEN PEOne ELSE PEMul(Head(s), PEProd(Tail(s)))

\* The exponents of a / b brought to one denominator D, and the sign of
\* ln(a / b) = sum_p m[p]/D * ln(p).  Two "pos" values are equal exactly when
\* all their exponents are; otherwise the rounded logarithms decide the sign
\* (PEOrderDecided states that the rounding cannot change it).
PEDiffNums(a, b) ==
    LET d == Table([p \in Primes |-> QSub(a.e[p], b.e[p])])
        D == LCM(LCM(d[2][2], d[3][2]), LCM(d[5][2], d[11][2]))
    IN  Table([p \in Primes |-> d[p][1] * (D \div d[p][2])])

PELogSign(m) == m[2] * LnE5[2] + m[3] * LnE5[3] + m[5] * LnE5[5] + m[11] * LnE5[11]

PEOrderDecided(a, b) ==
    LET m == PEDiffNums(a, b) IN
    \/ \A p \in Primes : m[p] = 0
    \/ Abs(PELogSign(m)) > Abs(m[2]) + Abs(m[3]) + Abs(m[5]) + Abs(m[11])

PELevel(a) == CASE a.k = "zero" -> 0 [] a.k = "pos" -> 1 [] OTHER -> 2

\* a > b on doubles.
PEGt(a, b) ==
    IF a.k = "nan" \/ b.k = "nan" THEN FALSE
    ELSE IF a.k = "pos" /\ b.k = "pos" THEN PELogSign(PEDiffNums(a, b)) > 0
    ELSE PELevel(a) > PELevel(b)

\* eps = 1e-9 = 1 / EpsDen
EpsDen == 1000000000
eps == <<1, EpsDen>>

\* Faulty variant of clip_lower: no floor.
clip_lower_missing(x) == x

\* X.clip(lower=eps), one cell: x if x >= eps, else eps.
clip_lower(x) ==
    IF x[1] <= 0 \/ (x[2] > EpsDen /\ x[1] <= (x[2] - 1) \div EpsDen)
    THEN eps ELSE x

\* exp: the weight, negated for a cost criterion.
wp_exp(w) ==
    Table([c \in Crit |->
            IF CRITERIA[c].type = "cost"
            THEN QSub(Zero, <<Abs(w[c][1]), w[c][2]>>)
            ELSE w[c]])

\* S = X_safe.pow(exp).prod(axis=1)
wp_S(X, exp) ==
    Table([i \in 1..Len(X) |->
            PEProd(Table([k \in 1..Len(CRIT_KEYS) |->
                      PEPow(ToPE(clip_lower(X[i][CRIT_KEYS[k]])),
                            exp[CRIT_KEYS[k]])]))])

\* The terms of a sum of reals in prime-exponent form, each with the number
\* of times it occurs: the sum does not depend on the order of its terms.
TermsOf(S) ==
    Table([x \in {S[j] : j \in 1..Len(S)} |-> Cardinality({j \in 1..Len(S) : S[j] = x})])

\* V = S / S.sum(): V[i] is the quotient of num by the sum of the terms den.
wp_V(S) ==
    Table([i \in 1..Len(S) |-> [num |-> S[i], den |-> TermsOf(S)]])

\* Two quotients over the same sum compare as their numerators do when the
\* sum is a positive real; a zero, infinite or NaN sum makes every V NaN.
SumIsPositive(den) == DOMAIN den # {} /\ \A x \in DOMAIN den : x.k = "pos"

VGt(a, b) == SumIsPositive(a.den) /\ PEGt(a.num, b.num)

wp_rank(V) ==
    RankMinDesc(Table([i \in 1..Len(V) |->
                    Table([j \in 1..Len(V) |-> VGt(V[i], V[j])])]))

wp_full(X, w) ==
    LET exp == wp_exp(w)
        S == wp_S(X, exp)
        V == wp_V(S)
        rank == wp_rank(V)
    IN  [exp |-> exp,
         result |-> Table([i \in 1..Len(X) |->
                             [S |-> S[i], V |-> V[i], rank |-> rank[i]]])]

\* ------------------------------------------------------------ comparator
\* Series.idxmin(): the first row holding the minimum.
IdxMin(s) ==
    CHOOSE i \in 1..Len(s) :
        /\ \A j \in 1..Len(s) : s[i] <= s[j]
        /\ \A j \in 1..(i - 1) : s[j] > s[i]

\* The Pembanding page: comp, best_saw, best_wp and the verdict.
Pembanding(lr) ==
    LET n == Len(lr.df_used)
        comp == Table([i \in 1..n |->
                    [nama |-> lr.df_used[i].nama,
                     score_saw |-> lr.saw.result[i].score,
                     rank_saw |-> lr.saw.result[i].rank,
                     score_wp |-> lr.wp.result[i].V,
                     rank_wp |-> lr.wp.result[i].rank]])
        best_saw == comp[IdxMin([i \in 1..n |-> comp[i].rank_saw])].nama
        best_wp == comp[IdxMin([i \in 1..n |-> comp[i].rank_wp])].nama
    IN  [comp |-> comp, best_saw |-> best_saw, best_wp |-> best_wp,
         agree |-> (best_saw = best_wp)]

\* --------------------------------------------------------- session state
Pages == {"Home", "Perhitungan", "SAW", "WP", "Pembanding", "Tentang"}

\* last_results is None or holds one record.
None == <<>>

\* What the selected page renders from the session state.
PageView(p, lr) ==
    CASE p = "SAW" ->
            IF lr = None THEN [kind |-> "warning"]
            ELSE [kind |-> "saw", shown |-> lr[1].saw]
      [] p = "WP" ->
            IF lr = None THEN [kind |-> "warning"]
            ELSE [kind |-> "wp", shown |-> lr[1].wp]
      [] p = "Pembanding" ->
            IF lr = None THEN [kind |-> "warning"]
            ELSE [kind |-> "pembanding", shown |-> Pembanding(lr[1])]
      [] OTHER -> [kind |-> p]

\* The working copy of the handler: df.copy(), its criterion columns
\* replaced by the defuzzified ones in fuzzy mode.
df_used(d, fuzzy) ==
    IF fuzzy
    THEN LET z == defuzzify(fuzzify_dataframe(d)) IN
         Table([i \in 1..Len(d) |->
                  Alt(d[i].kode, d[i].nama,
                      z[i]["C1"], z[i]["C2"], z[i]["C3"], z[i]["C4"], z[i]["C5"])])
    ELSE d

\* The handler raises (KeyError out of fuzzify_value) before it stores.
RunRaises(d, fuzzy) == fuzzy /\ FuzzifyRaises(d)

\* Faulty variant of df_after_run: the handler works on the stored table itself.
df_after_run_in_place(d, fuzzy) == df_used(d, fuzzy)

\* The stored table after a run: the handler changes only its copy.
df_after_run(d, fuzzy) == d

\* What the handler stores in last_results when it completes.
run_results(d, w, fuzzy) ==
    LET used == df_used(d, fuzzy) IN
    << [df_used |-> used,
        saw |-> saw_full(CritCols(used), w),
        wp |-> wp_full(CritCols(used), w)] >>

\* Faulty variant of results_after_failed_run: the results are cleared first.
results_cleared_by_failed_run(lr) == None

\* last_results after a run that raised: the assignment was not reached.
results_after_failed_run(lr) == lr

\* Faulty variant of normalize_weights: divides by the largest raw weight.
normalize_weights_by_max(raw) ==
    LET m == CHOOSE x \in {raw[c] : c \in Crit} : \A c \in Crit : ~QGt(raw[c], x)
    IN  Table([c \in Crit |-> QDiv(raw[c], m)])

\* st.session_state.weights = {k: v/s for k, v in new_weights.items()}
normalize_weights(raw) ==
    Table(LET s == PySum(RowSeq(raw)) IN [c \in Crit |-> QDiv(raw[c], s)])

\* ---------------------------------------------------------------- inputs
\* One cell of a table replaced, as the data editor returns it.
SetCell(d, i, c, v) ==
    [d EXCEPT ![i] =
        Alt(d[i].kode, d[i].nama,
            IF c = "C1" THEN v ELSE d[i]["C1"], IF c = "C2" THEN v ELSE d[i]["C2"],
            IF c = "C3" THEN v ELSE d[i]["C3"], IF c = "C4" THEN v ELSE d[i]["C4"],
            IF c = "C5" THEN v ELSE d[i]["C5"])]

\* Tables the data editor hands back (Spec): the shipped one, a 0 in the
\* cost column, a 5.5 and a 6 in benefit columns.
EditedTables ==
    { load_default_data,
      SetCell(load_default_data, 3, "C1", Zero),
      SetCell(load_default_data, 2, "C2", <<11, 2>>),
      SetCell(load_default_data, 4, "C3", Q(6)) }

Raw(c1, c2, c3, c4, c5) ==
    Table([c \in Crit |->
            CASE c = "C1" -> c1 [] c = "C2" -> c2 [] c = "C3" -> c3
              [] c = "C4" -> c4 [] c = "C5" -> c5])

\* Values of the five number inputs at a click on "Simpan Bobot" (Spec).
AppRaws ==
    { Raw(Zero, Zero, Zero, Zero, Zero),
      Raw(One, One, One, One, One),
      Raw(One, <<1, 2>>, Zero, Zero, <<1, 2>>) }

\* Every raw vector over the grid {0, 1/RawUnits, ..., 1} (SpecW).
RawGrid == [Crit -> {QNorm(u, RawUnits) : u \in 0..RawUnits}]

\* Alternatives the matrices of SpecCalc are made of: the shipped five and
\* one with zeros in the cost column C1 and the benefit column C2.
Alternatives ==
    {load_default_data[i] : i \in 1..Len(load_default_data)}
        \cup {Alt("A6", "Zerohost", Zero, Zero, Q(3), Q(5), Q(5))}

Matrices ==
    UNION {{m \in [1..n -> Alternatives] :
               \A i \in 1..n : \A j \in 1..n : i # j => m[i].kode # m[j].kode}
           : n \in 1..MaxAlt}

\* Stored weight vectors of SpecCalc: the defaults and saved vectors.
WeightChoices ==
    { DefaultWeights,
      normalize_weights(Raw(One, One, One, One, One)),
      normalize_weights(Raw(One, <<1, 2>>, Zero, Zero, <<1, 2>>)),
      normalize_weights(Raw(Zero, One, Zero, Zero, Zero)) }

\* --------------------------------------------------------------- actions
Init ==
    /\ page = "Home"
    /\ use_fuzzy = FALSE
    /\ df = load_default_data
    /\ weights = DefaultWeights
    /\ last_results = None
    /\ new_weights = DefaultWeights
    /\ status = "none"

\* The sidebar radio: the script re-runs and renders page p.
SelectPage(p) ==
    /\ page' = p
    /\ status' = "none"
    /\ UNCHANGED <<use_fuzzy, df, weights, last_results, new_weights>>

\* The sidebar checkbox "Gunakan Fuzzy".
ToggleFuzzy ==
    /\ use_fuzzy' = ~use_fuzzy
    /\ status' = "none"
    /\ UNCHANGED <<page, df, weights, last_results, new_weights>>

\* Perhitungan: st.session_state.df = edited.
EditData(edited) ==
    /\ page = "Perhitungan"
    /\ df' = edited
    /\ status' = "none"
    /\ UNCHANGED <<page, use_fuzzy, weights, last_results, new_weights>>

\* Perhitungan: the button "Simpan Bobot" with the number inputs at raw.
\* A zero sum raises ZeroDivisionError in v/s before anything is stored.
SimpanBobot(raw) ==
    /\ page = "Perhitungan"
    /\ new_weights' = raw
    /\ \/ /\ PySum(RowSeq(raw)) # Zero
          /\ weights' = normalize_weights(raw)
          /\ status' = "save_ok"
       \/ /\ PySum(RowSeq(raw)) = Zero
          /\ weights' = weights
          /\ status' = "save_error"
    /\ UNCHANGED <<page, use_fuzzy, df, last_results>>

\* Perhitungan: the button "Hitung SAW & WP".
HitungSAWWP ==
    /\ page = "Perhitungan"
    /\ \/ /\ ~RunRaises(df, use_fuzzy)
          /\ df' = df_after_run(df, use_fuzzy)
          /\ last_results' = run_results(df, weights, use_fuzzy)
          /\ status' = "run_ok"
       \/ /\ RunRaises(df, use_fuzzy)
          /\ df' = df
          /\ last_results' = results_after_failed_run(last_results)
          /\ status' = "run_error"
    /\ UNCHANGED <<page, use_fuzzy, weights, new_weights>>

Next ==
    \/ \E p \in Pages : SelectPage(p)
    \/ ToggleFuzzy
    \/ \E t \in EditedTables : EditData(t)
    \/ \E raw \in AppRaws : SimpanBobot(raw)
    \/ HitungSAWWP

Spec == Init /\ [][Next]_vars

\* The weight form alone, over the whole grid of raw inputs.
NextW ==
    \/ \E p \in Pages : SelectPage(p)
    \/ \E raw \in RawGrid : SimpanBobot(raw)

SpecW == Init /\ [][NextW]_vars

\* The calculation applied to bounded matrices and weight vectors.
InitCalc ==
    /\ page = "Perhitungan"
    /\ use_fuzzy \in BOOLEAN
    /\ df \in Matrices
    /\ weights \in WeightChoices
    /\ last_results = None
    /\ new_weights = weights
    /\ status = "none"

NextCalc ==
    \/ \E p \in Pages : SelectPage(p)
    \/ HitungSAWWP

SpecCalc == InitCalc /\ [][NextCalc]_vars

\* ------------------------------------------------------ model soundness
\* Every cell factors over Primes and every order decision between WP
\* values in the stored results is exact.
RECURSIVE StripPrime(_, _)
StripPrime(n, p) == IF n % p = 0 THEN StripPrime(n \div p, p) ELSE n

Smooth(n) == n = 0 \/ StripPrime(StripPrime(StripPrime(StripPrime(n, 2), 3), 5), 11) = 1

ModelSound ==
    last_results # None =>
        LET lr == last_results[1]
            n == Len(lr.df_used)
        IN  /\ \A i \in 1..n : \A c \in Crit :
                  Smooth(lr.df_used[i][c][1]) /\ Smooth(lr.df_used[i][c][2])
            /\ \A i \in 1..n : \A j \in 1..n :
                  PEOrderDecided(lr.wp.result[i].S, lr.wp.result[j].S)

\* ---------------------------------------------------------------- claims
LR == last_results[1]

RawSum == PySum(RowSeq(new_weights))

\* C1 (as claimed): saving raw weights that sum to zero does not fail and
\* leaves the Criterion Registry defaults stored.
C1_ZeroSumStoresDefaults ==
    (status \in {"save_ok", "save_error"} /\ RawSum = Zero)
        => (status = "save_ok" /\ weights = DefaultWeights)

\* C2: in every reachable state the stored weights have exactly the five
\* criterion keys, are non-negative and sum to 1; right after a save of a raw
\* vector with positive sum each stored weight is raw[k] / sum(raw).
C2_WeightsNormalized ==
    /\ DOMAIN weights = Crit
    /\ \A c \in Crit : IsFinite(weights[c]) /\ weights[c][1] >= 0
    /\ PySum(RowSeq(weights)) = One
    /\ status = "save_ok" =>
          \A c \in Crit : QMul(weights[c], RawSum) = new_weights[c]

C2_Witness ==
    /\ status = "save_ok"
    /\ RawSum # One
    /\ weights # DefaultWeights
    /\ \E c \in Crit : weights[c] # new_weights[c] /\ weights[c] # Zero

\* C3: for SAW (on score) and WP (on V) the rank of every alternative is
\* 1 + the number of alternatives with a strictly greater score.
C3_RankCountsGreater ==
    last_results # None =>
        LET n == Len(LR.df_used)
            saw == LR.saw.result
            wp == LR.wp.result
        IN  \A i \in 1..n :
              /\ saw[i].rank =
                   1 + Cardinality({j \in 1..n : QGt(saw[j].score, saw[i].score)})
              /\ wp[i].rank =
                   1 + Cardinality({j \in 1..n : VGt(wp[j].V, wp[i].V)})

\* A run with two alternatives tied at rank 1 and a third at rank 3, under both.
C3_Witness ==
    /\ last_results # None
    /\ \E i, j, k \in 1..Len(LR.df_used) :
          /\ i # j
          /\ LR.saw.result[i].rank = 1 /\ LR.saw.result[j].rank = 1
          /\ LR.saw.result[k].rank = 3
          /\ LR.wp.result[i].rank = 1 /\ LR.wp.result[j].rank = 1
          /\ LR.wp.result[k].rank = 3

\* v lies in the ordinal range 1..5
InOrdinalRange(v) == ~QGt(One, v) /\ ~QGt(v, Q(5))

\* C4 (as claimed): a fuzzy run completes only when every criterion value
\* lies in 1..5; a value outside makes the run fail.
C4_FuzzyRejectsOutOfRange ==
    (status = "run_ok" /\ use_fuzzy) =>
        \A i \in 1..Len(df) : \A c \in Crit : InOrdinalRange(df[i][c])

\* C5 (as claimed): a SAW result never holds a non-numeric normalized entry
\* or score.
C5_SawResultNumeric ==
    last_results # None =>
        \A i \in 1..Len(LR.df_used) :
            /\ IsFinite(LR.saw.result[i].score)
            /\ \A c \in Crit : IsFinite(LR.saw.normalized[i][c])

AllPositive(X) == \A i \in 1..Len(X) : \A c \in Crit : X[i][c][1] > 0 /\ X[i][c][2] > 0

\* Alternative i holds the maximum of benefit column c, or the minimum of
\* cost column c.
ColumnBest(X, c, i) ==
    \A j \in 1..Len(X) :
        IF CRITERIA[c].type = "benefit"
        THEN ~QGt(X[j][c], X[i][c]) ELSE ~QGt(X[i][c], X[j][c])

BestEverywhere(X, i) == \A c \in Crit : ColumnBest(X, c, i)

\* C6: for a strictly positive matrix and non-negative weights summing to 1,
\* every SAW normalized entry is x / column max (benefit) or column min / x
\* (cost) and lies in (0,1], every score lies in [0,1], and an alternative
\* that is best in every column scores exactly 1.
C6_SawBounds ==
    (last_results # None /\ AllPositive(CritCols(LR.df_used))
        /\ PySum(RowSeq(weights)) = One) =>
        LET X == CritCols(LR.df_used)
            n == Len(X)
            norm == LR.saw.normalized
            score == [i \in 1..n |-> LR.saw.result[i].score]
        IN  \A i \in 1..n :
              /\ \A c \in Crit :
                    /\ IsFinite(norm[i][c])
                    /\ QGt(norm[i][c], Zero) /\ ~QGt(norm[i][c], One)
                    /\ \E j \in 1..n :
                          /\ ColumnBest(X, c, j)
                          /\ IF CRITERIA[c].type = "benefit"
                             THEN QMul(norm[i][c], X[j][c]) = X[i][c]
                             ELSE QMul(norm[i][c], X[i][c]) = X[j][c]
              /\ IsFinite(score[i])
              /\ ~QGt(Zero, score[i]) /\ ~QGt(score[i], One)
              /\ BestEverywhere(X, i) => score[i] = One

\* A positive matrix where one alternative is best everywhere and another
\* scores less than 1.
C6_Witness ==
    /\ last_results # None
    /\ AllPositive(CritCols(LR.df_used))
    /\ \E i, k \in 1..Len(LR.df_used) :
          /\ BestEverywhere(CritCols(LR.df_used), i)
          /\ LR.saw.result[i].score = One
          /\ QGt(One, LR.saw.result[k].score)

\* C7: with at least one alternative, every WP S[i] is strictly positive,
\* V[i] = S[i] / sum_j S[j] lies in [0,1] and the V sum to 1: every V[i] is
\* S[i] over one and the same sum of positive terms, S[i] is one of those
\* terms, and the numerators taken together are exactly the terms of the sum.
C7_WpPreferences ==
    (last_results # None /\ Len(LR.df_used) >= 1) =>
        LET n == Len(LR.df_used)
            S == [i \in 1..n |-> LR.wp.result[i].S]
            V == [i \in 1..n |-> LR.wp.result[i].V]
        IN  /\ \A i \in 1..n : S[i].k = "pos"
            /\ \A i \in 1..n :
                  /\ V[i].num = S[i]
                  /\ SumIsPositive(V[i].den)
                  /\ V[i].num \in DOMAIN V[i].den
                  /\ V[i].den = V[1].den
            /\ TermsOf([i \in 1..n |-> V[i].num]) = V[1].den

\* A crisp run over a matrix that holds a 0, floored to eps by WP.
C7_Witness ==
    /\ last_results # None
    /\ Len(LR.df_used) >= 2
    /\ \E i \in 1..Len(LR.df_used) : \E c \in Crit : LR.df_used[i][c] = Zero

\* C8 (as claimed): for every permutation of the rows of the matrix the
\* Pembanding page reports the same best alternative for SAW, the same for
\* WP, the same verdict, and the same score and rank for every alternative.
C8_ComparatorOrderFree ==
    last_results # None =>
        \A q \in Permutations(1..Len(df)) :
            LET here == Pembanding(run_results(df, weights, use_fuzzy)[1])
                there == Pembanding(run_results(Table([k \in 1..Len(df) |-> df[q[k]]]),
                                                weights, use_fuzzy)[1])
            IN  /\ there.best_saw = here.best_saw
                /\ there.best_wp = here.best_wp
                /\ there.agree = here.agree
                /\ \A k \in 1..Len(df) : there.comp[k] = here.comp[q[k]]

WeightsOf(lr) ==
    Table([c \in Crit |-> <<Abs(lr.wp.exp[c][1]), lr.wp.exp[c][2]>>])

C10_Inv ==
    /\ (last_results = None /\ page \in {"SAW", "WP", "Pembanding"})
          => PageView(page, last_results) = [kind |-> "warning"]
    /\ last_results # None =>
          /\ Len(last_results) = 1
          /\ LR.saw = saw_full(CritCols(LR.df_used), WeightsOf(LR))
          /\ LR.wp = wp_full(CritCols(LR.df_used), WeightsOf(LR))

C10_Step ==
    /\ last_results' # last_results => status' = "run_ok"
    /\ status' = "run_error" => last_results' = last_results
    /\ status' = "run_ok" =>
          /\ ~(use_fuzzy /\ FuzzifyRaises(df))
          /\ last_results'[1].df_used = df_used(df, use_fuzzy)
          /\ WeightsOf(last_results'[1]) = weights

\* C10: last_results is empty (and then the SAW, WP and Pembanding pages show
\* only a warning) or holds a df_used, SAW result and WP result of one
\* completed run from the table, weights and fuzzy flag then in force; only a
\* completed run changes it, a failed run and every other step leave it.
C10_ResultsFromOneRun == [](C10_Inv) /\ [][C10_Step]_vars

\* A run that failed after a completed one: the stored results were kept.
C10_Witness ==
    /\ status = "run_error"
    /\ last_results # None

====
